---- MODULE Spec2Model ----
(***************************************************************************)
(* Model of package zen's Context (context.go): form binding with regex    *)
(* validation (ParseValidForm / parseValidForm / valid / scan) and the     *)
(* response helpers (JSON, XML, ASN1, Status, Head).                       *)
(*                                                                         *)
(* Go strings that are parsed are modelled as sequences of one-character   *)
(* strings, so the strconv parsers are computed character by character.    *)
(* Struct tags (pattern, message, form name), header keys and MIME types   *)
(* are TLA+ strings.                                                       *)
(***************************************************************************)
EXTENDS Integers, Sequences, FiniteSets, TLC

VARIABLES
    inputType,   \* the target struct's declared fields (kind, exported, tags)
    form,        \* c.req.Form as url.Values: name -> list of values
    fields,      \* the target struct's field values
    assigned,    \* indices of the fields a reflect Set* call has written
    ret,         \* error returned by ParseValidForm
    pc,          \* "start" before the binding call; after it, the return
                 \* statement taken: "parseFormFailed" or "bound"
    header,      \* c.rw.Header(): canonical key -> list of values
    wroteHeader, \* whether the response's status line has been written
    status,      \* the response's status code (0 while not written)
    body,        \* chunks written to the response body
    log,         \* the calls made on c.rw, in order
    calls        \* the Context operations called so far, with their results

vars == <<inputType, form, fields, assigned, ret, pc,
          header, wroteHeader, status, body, log, calls>>

formVars == <<inputType, form, fields, assigned, ret, pc>>
respVars == <<header, wroteHeader, status, body, log, calls>>

----------------------------------------------------------------------------
(* Bounds *)

MaxFields == 2
MaxOps == 3

----------------------------------------------------------------------------
(* Tag names and MIME types *)

inputTagName == "form"
validTagName == "valid"
validMsgName == "msg"

applicationJSON == "application/json"
applicationXML == "application/xml"
applicationASN1 == "application/asn1"
contentType == "Content-Type"

----------------------------------------------------------------------------
(* Errors.  Every error is a record of the same shape:                     *)
(*   kind  "nil" | "syntax" | "range" | "msg" | "regexp" | "parseform"     *)
(*         | "marshal" | "write"                                           *)
(*   fn    the strconv function of a *strconv.NumError                     *)
(*   num   the input string of a *strconv.NumError                         *)
(*   text  the message of errors.New, or the pattern of a regexp error     *)

Err(kind, fn, num, text) == [kind |-> kind, fn |-> fn, num |-> num, text |-> text]

NoErr == Err("nil", "", <<>>, "")

NumError(fn, s, kind) == Err(kind, fn, s, "")

----------------------------------------------------------------------------
(* Values held by struct fields.  One record shape for every kind:         *)
(*   t  "string" | "bool" | "int" | "uint" | "float" | "other"             *)
(*   i  integer / bool (0,1) / float mantissa                              *)
(*   e  float decimal exponent                                             *)
(*   s  string contents, or the name of a special float                    *)

Val(t, i, e, s) == [t |-> t, i |-> i, e |-> e, s |-> s]

StringVal(s) == Val("string", 0, 0, s)
BoolVal(b) == Val("bool", IF b THEN 1 ELSE 0, 0, <<>>)
IntVal(n) == Val("int", n, 0, <<>>)
UintVal(n) == Val("uint", n, 0, <<>>)
FloatVal(m, e) == Val("float", m, e, <<>>)
SpecialFloat(name) == Val("float", 0, 0, <<name>>)

----------------------------------------------------------------------------
(* Characters *)

DigitChars == {"0", "1", "2", "3", "4", "5", "6", "7", "8", "9"}

DigitVal(c) ==
    CASE c = "0" -> 0 [] c = "1" -> 1 [] c = "2" -> 2 [] c = "3" -> 3
      [] c = "4" -> 4 [] c = "5" -> 5 [] c = "6" -> 6 [] c = "7" -> 7
      [] c = "8" -> 8 [] c = "9" -> 9

LowerChars == {"a", "e", "f", "i", "n", "t", "x", "y"}

ToLower(c) ==
    CASE c = "A" -> "a" [] c = "E" -> "e" [] c = "F" -> "f" [] c = "I" -> "i"
      [] c = "N" -> "n" [] c = "T" -> "t" [] c = "X" -> "x" [] c = "Y" -> "y"
      [] OTHER -> c

LowerAll(s) == [j \in 1..Len(s) |-> ToLower(s[j])]

----------------------------------------------------------------------------
(* strconv.ParseBool *)

ParseBool(s) ==
    IF s \in {<<"1">>, <<"t">>, <<"T">>, <<"T","R","U","E">>,
              <<"t","r","u","e">>, <<"T","r","u","e">>}
    THEN [v |-> TRUE, err |-> NoErr]
    ELSE IF s \in {<<"0">>, <<"f">>, <<"F">>, <<"F","A","L","S","E">>,
                   <<"f","a","l","s","e">>, <<"F","a","l","s","e">>}
    THEN [v |-> FALSE, err |-> NoErr]
    ELSE [v |-> FALSE, err |-> NumError("ParseBool", s, "syntax")]

----------------------------------------------------------------------------
(* strconv.ParseUint(s, 10, 64) and strconv.ParseInt(s, 10, 64).           *)
(* Base 10 is given explicitly, so neither a base prefix nor an underscore *)
(* is accepted.  The range error of a 64-bit parse needs a numeral of 19   *)
(* digits or more; the digit loop below is exact for numerals of at most   *)
(* nine digits, and longer numerals are not part of the inputs.            *)

RECURSIVE uintLoop(_, _, _)
\* the digit loop of ParseUint: n is the value accumulated over s[1..j-1];
\* -1 reports a character that is not a digit
uintLoop(s, j, n) ==
    IF j > Len(s) THEN n
    ELSE IF s[j] \notin DigitChars THEN -1
    ELSE uintLoop(s, j + 1, n * 10 + DigitVal(s[j]))

parseUintAs(fn, s0, s) ==
    IF s = <<>> THEN [v |-> 0, err |-> NumError(fn, s0, "syntax")]
    ELSE LET n == uintLoop(s, 1, 0) IN
         IF n < 0 THEN [v |-> 0, err |-> NumError(fn, s0, "syntax")]
         ELSE [v |-> n, err |-> NoErr]

ParseUint(s) == parseUintAs("ParseUint", s, s)

ParseInt(s) ==
    IF s = <<>> THEN [v |-> 0, err |-> NumError("ParseInt", s, "syntax")]
    ELSE LET neg == s[1] = "-"
             rest == IF s[1] \in {"+", "-"} THEN Tail(s) ELSE s
             un == parseUintAs("ParseInt", s, rest)
         IN IF un.err # NoErr THEN [v |-> 0, err |-> un.err]
            ELSE [v |-> IF neg THEN 0 - un.v ELSE un.v, err |-> NoErr]

----------------------------------------------------------------------------
(* strconv.ParseFloat(s, 64).  Modelled: the special values (NaN, signed   *)
(* Inf / Infinity, case-insensitive) and the decimal syntax (sign, digits  *)
(* with at most one '.', 'e' / 'E' exponent).  A float is represented by   *)
(* the decimal it is the nearest float64 of, as mantissa and exponent with *)
(* the mantissa's trailing zeros removed.  Hexadecimal floats, '_' and the *)
(* range error (exponents beyond 308) are not part of the inputs.          *)

RECURSIVE normFloat(_, _)
normFloat(m, e) ==
    IF m = 0 THEN FloatVal(0, 0)
    ELSE IF m % 10 = 0 THEN normFloat(m \div 10, e + 1)
    ELSE FloatVal(m, e)

special(s) ==
    LET signed == s # <<>> /\ s[1] \in {"+", "-"}
        rest == LowerAll(IF signed THEN Tail(s) ELSE s)
    IN  IF rest \in {<<"i","n","f">>, <<"i","n","f","i","n","i","t","y">>}
        THEN IF signed /\ s[1] = "-" THEN "-Inf" ELSE "+Inf"
        ELSE IF ~signed /\ rest = <<"n","a","n">> THEN "NaN"
        ELSE "none"

RECURSIVE mantLoop(_, _, _, _, _, _)
\* the mantissa loop of readFloat from position j: stops at the first
\* character that is neither a digit nor the first '.'
mantLoop(s, j, sawdot, sawdigits, mant, frac) ==
    IF j > Len(s)
    THEN [j |-> j, sawdigits |-> sawdigits, mant |-> mant, frac |-> frac]
    ELSE IF s[j] = "." /\ ~sawdot
    THEN mantLoop(s, j + 1, TRUE, sawdigits, mant, frac)
    ELSE IF s[j] \in DigitChars
    THEN mantLoop(s, j + 1, sawdot, TRUE, mant * 10 + DigitVal(s[j]),
                  IF sawdot THEN frac + 1 ELSE frac)
    ELSE [j |-> j, sawdigits |-> sawdigits, mant |-> mant, frac |-> frac]

RECURSIVE expLoop(_, _, _)
\* the exponent digit loop of readFloat
expLoop(s, j, e) ==
    IF j > Len(s) \/ s[j] \notin DigitChars THEN [j |-> j, e |-> e]
    ELSE expLoop(s, j + 1, e * 10 + DigitVal(s[j]))

ParseFloat(s) ==
    LET bad == [v |-> FloatVal(0, 0), err |-> NumError("ParseFloat", s, "syntax")]
        sp == special(s)
    IN  IF sp # "none" THEN [v |-> SpecialFloat(sp), err |-> NoErr]
        ELSE IF s = <<>> THEN bad
        ELSE
        LET neg == s[1] = "-"
            j0 == IF s[1] \in {"+", "-"} THEN 2 ELSE 1
            m == mantLoop(s, j0, FALSE, FALSE, 0, 0)
        IN  IF ~m.sawdigits THEN bad
            ELSE IF m.j <= Len(s) /\ ToLower(s[m.j]) = "e"
            THEN LET j1 == m.j + 1
                     esign == IF j1 <= Len(s) /\ s[j1] = "-" THEN -1 ELSE 1
                     j2 == IF j1 <= Len(s) /\ s[j1] \in {"+", "-"}
                           THEN j1 + 1 ELSE j1
                 IN  IF j2 > Len(s) \/ s[j2] \notin DigitChars THEN bad
                     ELSE LET x == expLoop(s, j2, 0) IN
                          IF x.j # Len(s) + 1 THEN bad
                          ELSE [v |-> normFloat(IF neg THEN 0 - m.mant ELSE m.mant,
                                                esign * x.e - m.frac),
                                err |-> NoErr]
            ELSE IF m.j # Len(s) + 1 THEN bad
            ELSE [v |-> normFloat(IF neg THEN 0 - m.mant ELSE m.mant, 0 - m.frac),
                  err |-> NoErr]

----------------------------------------------------------------------------
(* regexp.Compile and Regexp.MatchString, on the patterns the model's      *)
(* struct tags use.                                                        *)

AlnumPattern == "^[0-9a-z]+$"
BadPattern == "("

\* regexp.Compile(validate) returns a nil error
Compiles(validate) == validate # BadPattern

\* rxp.MatchString(s) for a compiled pattern
MatchString(validate, s) ==
    IF validate = AlnumPattern
    THEN s # <<>> /\ \A j \in 1..Len(s) : s[j] \in DigitChars \cup LowerChars
    ELSE TRUE

\* a variant of valid that compiles the pattern and never matches it
validCompileOnly(s, validate, msg) ==
    IF validate = "" THEN NoErr
    ELSE IF ~Compiles(validate) THEN Err("regexp", "", <<>>, validate)
    ELSE NoErr

\* valid(s, validate, msg): nil, the compile error, or errors.New(msg)
valid(s, validate, msg) ==
    IF validate = "" THEN NoErr
    ELSE IF ~Compiles(validate) THEN Err("regexp", "", <<>>, validate)
    ELSE IF ~MatchString(validate, s) THEN Err("msg", "", <<>>, msg)
    ELSE NoErr

----------------------------------------------------------------------------
(* reflect: kinds, widths and the Set* methods *)

IntKinds == {"Int", "Int8", "Int16", "Int32", "Int64"}
UintKinds == {"Uint", "Uint8", "Uint16", "Uint32", "Uint64"}
FloatKinds == {"Float32", "Float64"}
ScalarKinds == {"String", "Bool"} \cup IntKinds \cup UintKinds \cup FloatKinds

\* the width of an integer kind
Bits(kind) ==
    CASE kind \in {"Int8", "Uint8"} -> 8
      [] kind \in {"Int16", "Uint16"} -> 16
      [] kind \in {"Int32", "Uint32"} -> 32
      [] OTHER -> 64

\* v.SetInt(x): x is converted to the field's width, keeping the low bits.
\* Widths of 32 bits and more hold every value the inputs reach.
SetInt(kind, x) ==
    IF Bits(kind) >= 32 THEN IntVal(x)
    ELSE LET half == 2 ^ (Bits(kind) - 1)
         IN  IntVal(((x + half) % (2 * half)) - half)

\* v.SetUint(x)
SetUint(kind, x) ==
    IF Bits(kind) >= 32 THEN UintVal(x)
    ELSE UintVal(x % (2 ^ Bits(kind)))

\* v.SetFloat(f): a float32 field holds float32(f), represented by the same
\* decimal
SetFloat(kind, f) == f

\* what scan yields: the error, the field's value afterwards and whether a
\* Set* method was called
Scanned(err, v, set) == [err |-> err, v |-> v, set |-> set]

\* a variant of the Bool case that parses and never calls v.SetBool
scanBoolNoSet(old, s) ==
    LET b == ParseBool(s) IN Scanned(b.err, old, FALSE)

\* scan's case reflect.Bool
scanBool(old, s) ==
    LET b == ParseBool(s) IN
    IF b.err # NoErr THEN Scanned(b.err, old, FALSE)
    ELSE Scanned(NoErr, BoolVal(b.v), TRUE)

\* a variant of the signed-integer case that drops ParseInt's error
scanIntIgnoresErr(kind, old, s) ==
    LET i == ParseInt(s) IN Scanned(NoErr, SetInt(kind, i.v), TRUE)

\* scan's case reflect.Int, Int8, Int16, Int32, Int64
scanInt(kind, old, s) ==
    LET i == ParseInt(s) IN
    IF i.err # NoErr THEN Scanned(i.err, old, FALSE)
    ELSE Scanned(NoErr, SetInt(kind, i.v), TRUE)

\* scan's case reflect.Uint, Uint8, Uint16, Uint32, Uint64
scanUint(kind, old, s) ==
    LET x == ParseUint(s) IN
    IF x.err # NoErr THEN Scanned(x.err, old, FALSE)
    ELSE Scanned(NoErr, SetUint(kind, x.v), TRUE)

\* scan's case reflect.Float32, Float64
scanFloat(kind, old, s) ==
    LET f == ParseFloat(s) IN
    IF f.err # NoErr THEN Scanned(f.err, old, FALSE)
    ELSE Scanned(NoErr, SetFloat(kind, f.v), TRUE)

\* scan(v, s) on the field v of the given kind holding old; CanSet is
\* whether the field is exported.  A kind without a case is left alone.
scan(kind, canSet, old, s) ==
    IF ~canSet THEN Scanned(NoErr, old, FALSE)
    ELSE CASE kind = "String" -> Scanned(NoErr, StringVal(s), TRUE)
           [] kind = "Bool" -> scanBool(old, s)
           [] kind \in IntKinds -> scanInt(kind, old, s)
           [] kind \in UintKinds -> scanUint(kind, old, s)
           [] kind \in FloatKinds -> scanFloat(kind, old, s)
           [] OTHER -> Scanned(NoErr, old, FALSE)

----------------------------------------------------------------------------
(* url.Values and the binding loop *)

\* tag.Get(name): the value of the struct tag's key, "" when it has none
TagGet(tag, name) == IF name \in DOMAIN tag THEN tag[name] ELSE ""

\* form.Get(key): the first value stored under key, "" when there is none
Get(f, key) ==
    IF key \in DOMAIN f /\ f[key] # <<>> THEN f[key][1] ELSE <<>>

RECURSIVE bindFromScanFirst(_, _, _, _, _)
\* a variant of the loop that scans a field before validating its value
bindFromScanFirst(typ, f, i, vals, asg) ==
    IF i > Len(typ) THEN [err |-> NoErr, fields |-> vals, assigned |-> asg]
    ELSE LET tag == typ[i].tag
             formName == TagGet(tag, inputTagName)
             validate == TagGet(tag, validTagName)
             validateMsg == TagGet(tag, validMsgName)
             formValue == Get(f, formName)
             r == scan(typ[i].kind, typ[i].exported, vals[i], formValue)
         IN  IF r.err # NoErr
             THEN [err |-> r.err, fields |-> vals, assigned |-> asg]
             ELSE LET verr == valid(formValue, validate, validateMsg)
                      nvals == [vals EXCEPT ![i] = r.v]
                      nasg == IF r.set THEN asg \cup {i} ELSE asg
                  IN  IF verr # NoErr
                      THEN [err |-> verr, fields |-> nvals, assigned |-> nasg]
                      ELSE bindFromScanFirst(typ, f, i + 1, nvals, nasg)

RECURSIVE bindFrom(_, _, _, _, _)
\* the loop of parseValidForm from field index i (1-based here) on, with the
\* struct's values vals and the written indices asg
bindFrom(typ, f, i, vals, asg) ==
    IF i > Len(typ) THEN [err |-> NoErr, fields |-> vals, assigned |-> asg]
    ELSE LET tag == typ[i].tag
             formName == TagGet(tag, inputTagName)
             validate == TagGet(tag, validTagName)
             validateMsg == TagGet(tag, validMsgName)
             formValue == Get(f, formName)
             verr == valid(formValue, validate, validateMsg)
         IN  IF verr # NoErr
             THEN [err |-> verr, fields |-> vals, assigned |-> asg]
             ELSE LET r == scan(typ[i].kind, typ[i].exported, vals[i], formValue)
                  IN  IF r.err # NoErr
                      THEN [err |-> r.err, fields |-> vals, assigned |-> asg]
                      ELSE bindFrom(typ, f, i + 1, [vals EXCEPT ![i] = r.v],
                                    IF r.set THEN asg \cup {i} ELSE asg)

parseValidForm(typ, vals, f) == bindFrom(typ, f, 1, vals, {})

----------------------------------------------------------------------------
(* Inputs of the binding call *)

\* the field kinds the target structs declare; "Slice" stands for the kinds
\* scan's switch has no case for
KindPool == {"String", "Bool", "Int8", "Uint", "Float64", "Slice"}

\* form values: decimal numerals, a word, and a word ParseFloat accepts
ValuePool == {<<"1">>, <<"3","0","0">>, <<"x">>, <<"n","a","n">>}

\* the values a form holds under one name: none, or one of the pool
ValueLists == {<<>>} \cup {<<v>> : v \in ValuePool}

\* what a struct field and its form entry can be: the field's kind, whether
\* it is exported, its valid tag, and the values the form holds under its
\* name.  Exported scalar fields take every pattern that compiles and every
\* value; unexported fields, fields of other kinds and patterns that do not
\* compile take the cases that tell them apart.
FieldInputs ==
    [kind : KindPool \ {"Slice"}, exported : {TRUE},
     valid : {"", AlnumPattern}, values : ValueLists]
    \cup [kind : {"Slice"}, exported : {TRUE}, valid : {""}, values : ValueLists]
    \cup [kind : {"Int8"}, exported : {FALSE}, valid : {"", AlnumPattern},
          values : {<<>>, <<<<"1">>>>, <<<<"x">>>>}]
    \cup [kind : {"String", "Int8"}, exported : {TRUE}, valid : {BadPattern},
          values : {<<<<"1">>>>, <<<<"x">>>>}]

\* the form tag and the msg tag of the i-th declared field
FormNameOf(i) == "f" \o ToString(i)
MsgOf(i) == "invalid " \o ToString(i)

\* the value a field of the given kind holds before the call
OldValue(kind) ==
    CASE kind = "String" -> StringVal(<<"o","l","d">>)
      [] kind = "Bool" -> BoolVal(FALSE)
      [] kind \in IntKinds -> IntVal(-7)
      [] kind \in UintKinds -> UintVal(7)
      [] kind \in FloatKinds -> FloatVal(7, 0)
      [] OTHER -> Val("other", 0, 0, <<>>)

\* the response writer of a request no handler has touched yet
InitResp ==
    /\ header = [k \in {} |-> <<>>]
    /\ wroteHeader = FALSE
    /\ status = 0
    /\ body = <<>>
    /\ log = <<>>
    /\ calls = <<>>

InitForm ==
    /\ \E n \in 0..MaxFields : \E in \in [1..n -> FieldInputs] :
          /\ inputType = [i \in 1..n |->
                [kind |-> in[i].kind, exported |-> in[i].exported,
                 tag |-> [form |-> FormNameOf(i), valid |-> in[i].valid,
                          msg |-> MsgOf(i)]]]
          /\ form = [k \in {FormNameOf(i) : i \in 1..n} |->
                in[CHOOSE i \in 1..n : FormNameOf(i) = k].values]
          /\ fields = [i \in 1..n |-> OldValue(in[i].kind)]
    /\ assigned = {}
    /\ ret = NoErr
    /\ pc = "start"
    /\ InitResp

----------------------------------------------------------------------------
(* Context.ParseValidForm *)

\* a variant in which ParseForm's error does not end the call: the form is
\* bound all the same and the error returned afterwards
ParseFormFailsThenBinds ==
    /\ pc = "start"
    /\ LET r == parseValidForm(inputType, fields, form) IN
          /\ ret' = Err("parseform", "", <<>>, "")
          /\ fields' = r.fields
          /\ assigned' = r.assigned
    /\ pc' = "parseFormFailed"
    /\ UNCHANGED <<inputType, form>>
    /\ UNCHANGED respVars

\* c.req.ParseForm() fails on a malformed body: the error is returned and
\* parseValidForm is not called
ParseFormFails ==
    /\ pc = "start"
    /\ ret' = Err("parseform", "", <<>>, "")
    /\ pc' = "parseFormFailed"
    /\ UNCHANGED <<inputType, form, fields, assigned>>
    /\ UNCHANGED respVars

\* c.req.ParseForm() succeeds and parseValidForm binds c.req.Form
ParseFormBinds ==
    /\ pc = "start"
    /\ LET r == parseValidForm(inputType, fields, form) IN
          /\ ret' = r.err
          /\ fields' = r.fields
          /\ assigned' = r.assigned
    /\ pc' = "bound"
    /\ UNCHANGED <<inputType, form>>
    /\ UNCHANGED respVars

ParseValidForm == ParseFormFails \/ ParseFormBinds

NextForm == ParseValidForm

SpecForm == InitForm /\ [][NextForm]_vars

----------------------------------------------------------------------------
(* Vocabulary of the binding claims, stated on the inputs and not on the   *)
(* loop: what the form holds for a field, whether its validation or its    *)
(* coercion fails, and the value its form value denotes.                   *)

NumField == Len(inputType)

\* the form value stored under the i-th field's form tag name
FormValue(i) ==
    LET name == inputType[i].tag.form IN
    IF name \in DOMAIN form /\ Len(form[name]) > 0 THEN Head(form[name]) ELSE <<>>

\* the i-th field's valid tag and msg tag
Pattern(i) == inputType[i].tag.valid
Message(i) == inputType[i].tag.msg

HasPattern(i) == Pattern(i) # ""
PatternInvalid(i) == HasPattern(i) /\ ~Compiles(Pattern(i))
PatternMismatch(i) ==
    /\ HasPattern(i)
    /\ Compiles(Pattern(i))
    /\ ~MatchString(Pattern(i), FormValue(i))
ValidationFails(i) == PatternInvalid(i) \/ PatternMismatch(i)

IsNumericKind(kind) == kind \in IntKinds \cup UintKinds \cup FloatKinds

\* the error the strconv parser of the kind returns for s (NoErr if none)
ParserError(kind, s) ==
    CASE kind = "Bool" -> ParseBool(s).err
      [] kind \in IntKinds -> ParseInt(s).err
      [] kind \in UintKinds -> ParseUint(s).err
      [] kind \in FloatKinds -> ParseFloat(s).err
      [] OTHER -> NoErr

CoercionFails(i) ==
    /\ inputType[i].exported
    /\ ParserError(inputType[i].kind, FormValue(i)) # NoErr

FieldFails(i) == ValidationFails(i) \/ CoercionFails(i)

NoEarlierFailure(i) == \A j \in 1..(i - 1) : ~FieldFails(j)

\* the error of a field taken alone: validation first, then coercion
FieldError(i) ==
    IF PatternInvalid(i) THEN Err("regexp", "", <<>>, Pattern(i))
    ELSE IF PatternMismatch(i) THEN Err("msg", "", <<>>, Message(i))
    ELSE ParserError(inputType[i].kind, FormValue(i))

IsDigits(s) == s # <<>> /\ \A j \in 1..Len(s) : s[j] \in DigitChars

RECURSIVE DecimalValue(_)
\* the number a string of digits denotes
DecimalValue(s) ==
    IF s = <<>> THEN 0
    ELSE 10 * DecimalValue(SubSeq(s, 1, Len(s) - 1)) + DigitVal(s[Len(s)])

Unsigned(s) == IF s # <<>> /\ s[1] \in {"+", "-"} THEN Tail(s) ELSE s

\* a numeric string: an optionally signed decimal numeral, with at most one
\* decimal point
IsNumeric(s) ==
    LET u == Unsigned(s) IN
    /\ \E j \in 1..Len(u) : u[j] \in DigitChars
    /\ \A j \in 1..Len(u) : u[j] \in DigitChars \cup {"."}
    /\ Cardinality({j \in 1..Len(u) : u[j] = "."}) <= 1

SignedValue(s) ==
    IF s[1] = "-" THEN 0 - DecimalValue(Unsigned(s)) ELSE DecimalValue(Unsigned(s))

\* s is parseable as the scalar type of the kind: a literal of the type,
\* within the range of its width
ParseableAs(kind, s) ==
    CASE kind = "Bool" -> ParseBool(s).err = NoErr
      [] kind \in IntKinds ->
           /\ IsDigits(Unsigned(s))
           /\ Bits(kind) < 32 =>
                /\ SignedValue(s) >= 0 - 2 ^ (Bits(kind) - 1)
                /\ SignedValue(s) < 2 ^ (Bits(kind) - 1)
      [] kind \in UintKinds ->
           /\ IsDigits(s)
           /\ Bits(kind) < 32 => DecimalValue(s) < 2 ^ Bits(kind)
      [] kind \in FloatKinds -> ParseFloat(s).err = NoErr
      [] OTHER -> TRUE

\* the value of the kind's type that s denotes
Denoted(kind, s) ==
    CASE kind = "String" -> StringVal(s)
      [] kind = "Bool" -> BoolVal(ParseBool(s).v)
      [] kind \in IntKinds -> IntVal(SignedValue(s))
      [] kind \in UintKinds -> UintVal(DecimalValue(s))
      [] kind \in FloatKinds ->
           IF IsDigits(s) THEN normFloat(DecimalValue(s), 0) ELSE ParseFloat(s).v
      [] OTHER -> Val("other", 0, 0, <<>>)

\* every field's form value passes its validation (or has none) and is
\* parseable as the field's type
WellFormed ==
    \A i \in 1..NumField :
        /\ ~ValidationFails(i)
        /\ ParseableAs(inputType[i].kind, FormValue(i))

Bound == pc = "bound"

\* the lowest-indexed failing field (0 when no field fails)
FirstFailure ==
    IF \E i \in 1..NumField : FieldFails(i)
    THEN CHOOSE i \in 1..NumField : FieldFails(i) /\ NoEarlierFailure(i)
    ELSE 0

Unchanged(i) == fields[i] = OldValue(inputType[i].kind) /\ i \notin assigned

----------------------------------------------------------------------------
(* C1: when every field's form value passes its validation pattern (or the *)
(* field has none) and is parseable as the field's type, parseValidForm    *)
(* returns no error and every exported field of kind string, bool, signed  *)
(* integer, unsigned integer or float holds the value its form value       *)
(* denotes.                                                                *)
C1_WellFormedBinds ==
    (Bound /\ WellFormed) =>
        /\ ret = NoErr
        /\ \A i \in 1..NumField :
              (inputType[i].exported /\ inputType[i].kind \in ScalarKinds) =>
                  /\ i \in assigned
                  /\ fields[i] = Denoted(inputType[i].kind, FormValue(i))

\* C1 as stated: every declared field of a scalar kind, exported or not
C1_Original ==
    (Bound /\ WellFormed) =>
        /\ ret = NoErr
        /\ \A i \in 1..NumField :
              inputType[i].kind \in ScalarKinds =>
                  fields[i] = Denoted(inputType[i].kind, FormValue(i))

\* C1 happens: a well-formed form bound into a struct with a validated
\* float field, a narrow integer field and an unexported field
C1_Witness ==
    /\ Bound /\ WellFormed /\ NumField >= 2
    /\ \E i \in 1..NumField :
          /\ HasPattern(i) /\ i \in assigned
          /\ inputType[i].kind \in {"Float64", "Int8"}
    /\ \E j \in 1..NumField : ~inputType[j].exported

(* C2: whenever a field's validation pattern does not compile or its form  *)
(* value does not match it, the binding call fails; when that field is the *)
(* lowest-indexed failing field, the error is the message of its msg tag   *)
(* if the pattern compiles, and the regexp compile error if it does not.   *)
C2_ValidationFailure ==
    Bound =>
        \A i \in 1..NumField :
            ValidationFails(i) =>
                /\ ret # NoErr
                /\ NoEarlierFailure(i) =>
                      ret = IF PatternInvalid(i)
                            THEN Err("regexp", "", <<>>, Pattern(i))
                            ELSE Err("msg", "", <<>>, Message(i))

\* C2 as stated: an invalid pattern or a failed match always yields the
\* field's configured message
C2_Original ==
    Bound =>
        \A i \in 1..NumField :
            ValidationFails(i) => ret = Err("msg", "", <<>>, Message(i))

\* C2 happens: the second field fails its pattern after the first was bound,
\* and another call stops at a pattern that does not compile
C2_Witness ==
    /\ Bound /\ NumField >= 2
    /\ PatternMismatch(2) /\ NoEarlierFailure(2) /\ 1 \in assigned
    /\ ret = Err("msg", "", <<>>, Message(2))

(* C3: for every exported field of a signed-integer, unsigned-integer or   *)
(* float kind whose form value the kind's strconv parser rejects while the *)
(* field's validation passes or is absent, the binding call fails and the  *)
(* field is not assigned; when no lower-indexed field fails, the error is  *)
(* that parse error.                                                       *)
C3_ParseFailure ==
    Bound =>
        \A i \in 1..NumField :
            ( /\ inputType[i].exported
              /\ IsNumericKind(inputType[i].kind)
              /\ ParserError(inputType[i].kind, FormValue(i)) # NoErr
              /\ ~ValidationFails(i) ) =>
                /\ ret # NoErr
                /\ Unchanged(i)
                /\ NoEarlierFailure(i) =>
                      /\ ret.kind = "syntax"
                      /\ ret.num = FormValue(i)
                      /\ ret = ParserError(inputType[i].kind, FormValue(i))

\* C3 as stated: a form value that is not a numeric string always yields
\* the field's parse error and leaves the field unassigned
C3_Original ==
    Bound =>
        \A i \in 1..NumField :
            ( /\ inputType[i].exported
              /\ IsNumericKind(inputType[i].kind)
              /\ ~IsNumeric(FormValue(i))
              /\ ~ValidationFails(i) ) =>
                /\ ret.kind \in {"syntax", "range"}
                /\ ret.num = FormValue(i)
                /\ Unchanged(i)

\* C3 happens: a word passes the second field's pattern and is rejected by
\* its parser, after the first field was bound
C3_Witness ==
    /\ Bound /\ NumField >= 2
    /\ inputType[2].exported /\ IsNumericKind(inputType[2].kind)
    /\ HasPattern(2) /\ ~ValidationFails(2)
    /\ ~IsNumeric(FormValue(2))
    /\ ParserError(inputType[2].kind, FormValue(2)) # NoErr
    /\ 1 \in assigned
    /\ ret = ParserError(inputType[2].kind, FormValue(2))

(* C6: when ParseForm fails, ParseValidForm returns that error, validates  *)
(* and coerces nothing, and leaves every field of the struct unchanged.    *)
C6_MalformedForm ==
    pc = "parseFormFailed" =>
        /\ ret = Err("parseform", "", <<>>, "")
        /\ assigned = {}
        /\ \A i \in 1..NumField : Unchanged(i)

\* C6 happens: ParseForm failed on a request whose form would have bound a
\* field and failed the validation of another
C6_Witness ==
    /\ pc = "parseFormFailed" /\ NumField >= 2
    /\ ~FieldFails(1) /\ inputType[1].exported /\ inputType[1].kind = "String"
    /\ ValidationFails(2)

(* C7: fields are processed in declaration order, validation before        *)
(* coercion: the error returned is that of the lowest-indexed failing      *)
(* field, and for a field that fails both its validation and its coercion  *)
(* it is the validation error.  Without a failing field nil is returned.   *)
C7_FirstFailureWins ==
    Bound =>
        IF FirstFailure = 0 THEN ret = NoErr
        ELSE /\ ret = FieldError(FirstFailure)
             /\ ValidationFails(FirstFailure) => ret.kind \in {"msg", "regexp"}

\* C7 happens: the first field binds, the second fails both its pattern and
\* its parser
C7_Witness ==
    /\ Bound /\ NumField >= 2
    /\ FirstFailure = 2
    /\ PatternMismatch(2) /\ CoercionFails(2)
    /\ ret = Err("msg", "", <<>>, Message(2))

(* C8: when parseValidForm fails at field k, every field from k on keeps   *)
(* its value and every exported scalar field before k has been overwritten *)
(* with the value its form value denotes.                                  *)
C8_PartialBinding ==
    (Bound /\ ret # NoErr) =>
        \A i \in 1..NumField :
            IF i >= FirstFailure THEN Unchanged(i)
            ELSE (inputType[i].exported /\ inputType[i].kind \in ScalarKinds) =>
                     /\ i \in assigned
                     /\ fields[i] = Denoted(inputType[i].kind, FormValue(i))

\* the part of C8 the code keeps: the fields before k hold what the Set*
\* method of their kind stores, which is the denoted value converted to the
\* field's width
PartialBindingStored ==
    (Bound /\ ret # NoErr) =>
        \A i \in 1..NumField :
            IF i >= FirstFailure THEN Unchanged(i)
            ELSE (inputType[i].exported /\ inputType[i].kind \in ScalarKinds) =>
                     /\ i \in assigned
                     /\ ParseableAs(inputType[i].kind, FormValue(i)) =>
                           fields[i] = Denoted(inputType[i].kind, FormValue(i))

----------------------------------------------------------------------------
(* The response writer c.rw, as net/http implements http.ResponseWriter.   *)
(* The operators below take and return the writer's state as a record, so  *)
(* that the calls one Context method makes are applied in the method's     *)
(* order.                                                                  *)

RW == [header |-> header, wroteHeader |-> wroteHeader, status |-> status,
       body |-> body, log |-> log]

Event(ev, key, value, code, by) ==
    [ev |-> ev, key |-> key, value |-> value, code |-> code, by |-> by]

\* textproto.CanonicalMIMEHeaderKey on the keys the model uses
CanonicalMIMEHeaderKey(k) == IF k = "content-type" THEN "Content-Type" ELSE k

\* the values stored under a canonical key
Values(h, k) == IF k \in DOMAIN h THEN h[k] ELSE <<>>

\* http.Header.Set(k, v) in the place of Add: v replaces the key's values
HeaderSet(h, k, v) ==
    LET ck == CanonicalMIMEHeaderKey(k) IN
    [x \in DOMAIN h \cup {ck} |-> IF x = ck THEN <<v>> ELSE h[x]]

\* http.Header.Add(k, v): v is appended to the values of the canonical key
HeaderAdd(h, k, v) ==
    LET ck == CanonicalMIMEHeaderKey(k) IN
    [x \in DOMAIN h \cup {ck} |->
        IF x = ck THEN Append(Values(h, ck), v) ELSE h[x]]

\* c.rw.Header().Add(k, v)
rwHeaderAdd(rw, k, v) ==
    [rw EXCEPT !.header = HeaderAdd(rw.header, k, v),
               !.log = Append(rw.log,
                   Event("Add", CanonicalMIMEHeaderKey(k), v, 0, ""))]

\* c.rw.WriteHeader(code): the first call fixes the status code, a later
\* call is superfluous and changes nothing
rwWriteHeader(rw, code) ==
    IF rw.wroteHeader
    THEN [rw EXCEPT !.log = Append(rw.log, Event("WriteHeader", "", "", code, ""))]
    ELSE [rw EXCEPT !.wroteHeader = TRUE, !.status = code,
                    !.log = Append(rw.log, Event("WriteHeader", "", "", code, ""))]

\* c.rw.Write(bytes) by the given encoder: writes the header with status 200
\* first if no header was written; complete is whether every byte was
\* written (Write returned no error)
rwWrite(rw, by, complete) ==
    LET r == IF rw.wroteHeader THEN rw
             ELSE [rw EXCEPT !.wroteHeader = TRUE, !.status = 200]
    IN  [r EXCEPT !.body = Append(r.body, [by |-> by, complete |-> complete]),
                  !.log = Append(r.log, Event("Write", "", "", 0, by))]

----------------------------------------------------------------------------
(* Context.Head, Context.Status and the encoders *)

\* c.Head(k, v)
head(rw, k, v) == rwHeaderAdd(rw, k, v)

\* what an encoder call can meet: the value encodes and is written ("ok"),
\* the value cannot be marshalled ("marshalErr"), c.rw.Write fails
\* ("writeErr"); for XML also a nil value, which encodes to nothing
\* ("empty"), and a marshal error after the encoder's buffer was flushed
\* once ("marshalErrFlushed")
Outcomes(op) ==
    CASE op = "JSON" -> {"ok", "marshalErr", "writeErr"}
      [] op = "XML" -> {"ok", "marshalErr", "writeErr", "empty", "marshalErrFlushed"}
      [] op = "ASN1" -> {"ok", "marshalErr", "writeErr"}

\* the error an encoder call returns
ErrOf(outcome) ==
    CASE outcome \in {"ok", "empty"} -> NoErr
      [] outcome \in {"marshalErr", "marshalErrFlushed"} -> Err("marshal", "", <<>>, "")
      [] outcome = "writeErr" -> Err("write", "", <<>>, "")

\* a variant of Context.JSON that encodes first and sets the header after
encodeJSONThenHead(rw, outcome) ==
    LET r == CASE outcome = "ok" -> rwWrite(rw, "JSON", TRUE)
               [] outcome = "writeErr" -> rwWrite(rw, "JSON", FALSE)
               [] OTHER -> rw
    IN  head(r, contentType, applicationJSON)

\* Context.JSON: the header, then json.NewEncoder(c.rw).Encode(i), which
\* marshals i and writes the result with one Write
encodeJSON(rw, outcome) ==
    LET r == head(rw, contentType, applicationJSON) IN
    CASE outcome = "ok" -> rwWrite(r, "JSON", TRUE)
      [] outcome = "writeErr" -> rwWrite(r, "JSON", FALSE)
      [] OTHER -> r

\* Context.XML: the header, then xml.NewEncoder(c.rw).Encode(i), which
\* writes through a buffer flushed at the end
encodeXML(rw, outcome) ==
    LET r == head(rw, contentType, applicationXML) IN
    CASE outcome = "ok" -> rwWrite(r, "XML", TRUE)
      [] outcome \in {"writeErr", "marshalErrFlushed"} -> rwWrite(r, "XML", FALSE)
      [] OTHER -> r

\* a variant of Context.ASN1 that writes the bytes without checking
\* Marshal's error
encodeASN1Unchecked(rw, outcome) ==
    LET r == head(rw, contentType, applicationASN1) IN
    CASE outcome = "marshalErr" -> rwWrite(r, "ASN1", TRUE)
      [] outcome = "ok" -> rwWrite(r, "ASN1", TRUE)
      [] outcome = "writeErr" -> rwWrite(r, "ASN1", FALSE)

\* Context.ASN1: the header, then asn1.Marshal(i); the bytes are written only
\* when Marshal returned no error
encodeASN1(rw, outcome) ==
    LET r == head(rw, contentType, applicationASN1) IN
    CASE outcome = "marshalErr" -> r
      [] outcome = "ok" -> rwWrite(r, "ASN1", TRUE)
      [] outcome = "writeErr" -> rwWrite(r, "ASN1", FALSE)

\* the inputs of Status and Head
StatusCodes == {200, 404}
HeaderKeys == {"Content-Type", "content-type", "X-Request-Id"}
HeaderValues == {"text/plain", "application/json"}

Call(op, key, value, code, outcome, err, wrote) ==
    [op |-> op, key |-> key, value |-> value, code |-> code,
     outcome |-> outcome, err |-> err, wrote |-> wrote]

\* the writer's state after a Context method, and the method's record in
\* the call history
Apply(r, call) ==
    /\ header' = r.header
    /\ wroteHeader' = r.wroteHeader
    /\ status' = r.status
    /\ body' = r.body
    /\ log' = r.log
    /\ calls' = Append(calls, call)
    /\ UNCHANGED formVars

Status ==
    /\ Len(calls) < MaxOps
    /\ \E code \in StatusCodes :
          Apply(rwWriteHeader(RW, code), Call("Status", "", "", code, "", NoErr, 0))

\* Context.Head (named HeadOp here: Head is the Sequences operator)
HeadOp ==
    /\ Len(calls) < MaxOps
    /\ \E k \in HeaderKeys, v \in HeaderValues :
          Apply(head(RW, k, v), Call("Head", k, v, 0, "", NoErr, 0))

JSON ==
    /\ Len(calls) < MaxOps
    /\ \E o \in Outcomes("JSON") :
          LET r == encodeJSON(RW, o) IN
          Apply(r, Call("JSON", "", "", 0, o, ErrOf(o), Len(r.body) - Len(body)))

XML ==
    /\ Len(calls) < MaxOps
    /\ \E o \in Outcomes("XML") :
          LET r == encodeXML(RW, o) IN
          Apply(r, Call("XML", "", "", 0, o, ErrOf(o), Len(r.body) - Len(body)))

ASN1 ==
    /\ Len(calls) < MaxOps
    /\ \E o \in Outcomes("ASN1") :
          LET r == encodeASN1(RW, o) IN
          Apply(r, Call("ASN1", "", "", 0, o, ErrOf(o), Len(r.body) - Len(body)))

\* a Context whose request is not bound in this specification
InitRespOnly ==
    /\ inputType = <<>>
    /\ form = [k \in {} |-> <<>>]
    /\ fields = <<>>
    /\ assigned = {}
    /\ ret = NoErr
    /\ pc = "start"
    /\ InitResp

NextResp == Status \/ HeadOp \/ JSON \/ XML \/ ASN1

SpecResp == InitRespOnly /\ [][NextResp]_vars

----------------------------------------------------------------------------
(* Vocabulary of the response claims *)

Encoders == {"JSON", "XML", "ASN1"}

MimeOf(op) ==
    CASE op = "JSON" -> applicationJSON
      [] op = "XML" -> applicationXML
      [] op = "ASN1" -> applicationASN1

Range(s) == {s[j] : j \in 1..Len(s)}

LastCall == calls[Len(calls)]

\* the status code the client receives: the one written, or 200 when the
\* handler returns without having written one
EffectiveStatus == IF wroteHeader THEN status ELSE 200

RECURSIVE ExpectedContentType(_)
\* the Content-Type values a call history asks for, in call order: the MIME
\* type of every encoder call and the value of every Head call on the
\* Content-Type key
ExpectedContentType(cs) ==
    IF cs = <<>> THEN <<>>
    ELSE LET c == cs[Len(cs)]
             before == ExpectedContentType(SubSeq(cs, 1, Len(cs) - 1))
         IN  IF c.op \in Encoders THEN Append(before, MimeOf(c.op))
             ELSE IF c.op = "Head" /\ CanonicalMIMEHeaderKey(c.key) = contentType
             THEN Append(before, c.value)
             ELSE before

(* C4: in every JSON, XML and ASN1 call the matching Content-Type value is *)
(* added to the response headers before any body byte is written: every    *)
(* Write on the response writer directly follows the Add of the writing    *)
(* encoder's MIME type, and every chunk of the body has its encoder's MIME *)
(* type among the Content-Type values.                                     *)
C4_HeaderBeforeBody ==
    /\ \A j \in 1..Len(log) :
          log[j].ev = "Write" =>
              /\ j > 1
              /\ log[j - 1] = Event("Add", contentType, MimeOf(log[j].by), 0, "")
    /\ \A n \in 1..Len(body) :
          MimeOf(body[n].by) \in Range(Values(header, contentType))

\* C4 happens: an encoder wrote its body after another Content-Type value
\* was already present
C4_Witness ==
    /\ Len(calls) >= 2
    /\ calls[1].op = "Head" /\ calls[1].value = "text/plain"
    /\ LastCall.op = "ASN1" /\ LastCall.outcome = "ok"
    /\ log[Len(log)].ev = "Write"

(* C5: after any sequence of Context operations that ends in a successful  *)
(* JSON, XML or ASN1 call, the response's status code is 200.              *)
C5_Status200 ==
    (calls # <<>> /\ LastCall.op \in Encoders /\ LastCall.err = NoErr) =>
        EffectiveStatus = 200

(* C9: Head appends and never replaces: the Content-Type header holds one  *)
(* value per encoder call and one per Head call on the Content-Type key,   *)
(* in call order.                                                          *)
C9_HeadAppends ==
    Values(header, contentType) = ExpectedContentType(calls)

\* C9 happens: two encoder calls around an explicit Head leave three values
C9_Witness ==
    /\ Len(calls) = 3
    /\ calls[1].op \in Encoders /\ calls[3].op \in Encoders
    /\ calls[2].op = "Head" /\ calls[2].key = contentType
    /\ Len(Values(header, contentType)) = 3

(* C10: an ASN1 call whose value cannot be marshalled returns the marshal  *)
(* error and writes no body byte, and the application/asn1 Content-Type    *)
(* value it added stays in the response headers.                           *)
C10_ASN1MarshalError ==
    \A n \in 1..Len(calls) :
        (calls[n].op = "ASN1" /\ calls[n].outcome = "marshalErr") =>
            /\ calls[n].err = Err("marshal", "", <<>>, "")
            /\ calls[n].wrote = 0
            /\ applicationASN1 \in Range(Values(header, contentType))
            /\ Len(calls) = n =>
                  /\ log[Len(log)] = Event("Add", contentType, applicationASN1, 0, "")
                  /\ \A m \in 1..Len(body) : body[m].by = "ASN1" =>
                        \E k \in 1..(n - 1) :
                            calls[k].op = "ASN1" /\ calls[k].outcome # "marshalErr"

\* C10 happens: ASN1 fails to marshal after a Status call and a later call
\* follows it
C10_Witness ==
    /\ Len(calls) = 3
    /\ calls[1].op = "Status"
    /\ calls[2].op = "ASN1" /\ calls[2].outcome = "marshalErr"
    /\ calls[3].op = "Head"
    /\ body = <<>>

====
